---- MODULE Spec2Model ----
(***************************************************************************)
(* Workflow orchestration engine of maths-agent-project:                   *)
(*   - ContentBlockStateMachine            (workflow/state_machine.py)     *)
(*   - Celery worker tasks                 (tasks/workflow_tasks.py)       *)
(*   - SupervisorLogic / AutonomousLogic   (workflow/*_logic.py)           *)
(*   - internal endpoints                  (api/internal/endpoints.py)     *)
(*   - the persistence repositories it writes through.                     *)
(*                                                                         *)
(* One project with one document version is modelled.  Handler bodies are  *)
(* translated statement by statement.  Strings are the source's strings    *)
(* with accents folded to ASCII ("Génération démarrée" is written          *)
(* "Generation demarree"); distinct source strings stay distinct.          *)
(* Module loading and the persistence HTTP layer are taken to work: a      *)
(* block record resolves to its project (workflow_tasks.py:74) and every   *)
(* repository call succeeds.                                               *)
(***************************************************************************)
EXTENDS Integers, Sequences, FiniteSets, TLC

VARIABLES
    mode,           \* Project.mode, fixed at creation
    projectStatus,  \* Project.status
    blocks,         \* content_blocks rows: block_id -> record
    queue,          \* Celery task messages and their execution position
    wtasks,         \* workflow_tasks rows: task_id -> record
    lastResp,       \* outcome of the last endpoint call
    sigLog,         \* user signals received so far
    calls,          \* number of environment calls made, per kind
    qcFails,        \* history: slot -> QC failures reported in a row by the QC service
    scoreInputs,    \* QC service: the three sub-reports handed to the score calculator
    scoreReport,    \* QC service: the QCReport the score calculator returned
    fsm,            \* a ContentBlockStateMachine object and its last transition() call
    planner         \* AutonomousPlanner: the arguments and result of get_next_task_in_plan

vars == <<mode, projectStatus, blocks, queue, wtasks, lastResp, sigLog, calls, qcFails,
          scoreInputs, scoreReport, fsm, planner>>

----------------------------------------------------------------------------
(* Bounds of the model *)

NumBlocks == 2
MaxSubmits == 2
MaxSignals == 2
MaxDeliveries == 2
MaxProjectUpdates == 1
MaxQueue == 3
MaxCalls == 2

----------------------------------------------------------------------------
(* Program constants *)

QC_VALIDATION_THRESHOLD == 70
MAX_REFINEMENT_ATTEMPTS == 5
QC_MAX_RETRIES == 3
ASSEMBLE_MAX_RETRIES == 3
EXPORT_MAX_RETRIES == 3

SUPERVISE == "Supervise"
AUTONOME == "Autonome"

BLOCK_STATES ==
    { "pending_generation", "generation_in_progress", "generation_failed",
      "qc_pending", "qc_in_progress", "qc_failed", "qc_passed",
      "refinement_pending", "refinement_in_progress", "refinement_failed",
      "pending_validation", "validated", "archived", "critical_error" }

\* The EVENTS dictionary: key -> value.  A key outside DOMAIN EVENTS is a KeyError.
EVENTS ==
    [ GENERATE_STARTED   |-> "Generation demarree",
      GENERATE_SUCCESS   |-> "Generation reussie",
      GENERATE_FAILED    |-> "Generation echouee",
      QC_STARTED         |-> "QC demarre",
      QC_PASSED          |-> "QC reussi",
      QC_FAILED          |-> "QC echoue",
      REFINEMENT_NEEDED  |-> "Raffinement necessaire",
      REFINEMENT_STARTED |-> "Raffinement demarre",
      REFINEMENT_SUCCESS |-> "Raffinement reussi",
      REFINEMENT_FAILED  |-> "Raffinement echouee",
      USER_VALIDATE      |-> "Validation utilisateur",
      USER_REDO          |-> "Demande de raffinement par l'utilisateur",
      ARCHIVE            |-> "Archivage du bloc",
      CRITICAL_FAIL      |-> "Echec critique" ]

\* The table with a second target for (qc_in_progress, QC_FAILED).
transitionsTwoTargets ==
    { <<"pending_generation", "GENERATE_STARTED", "generation_in_progress">>,
      <<"generation_in_progress", "GENERATE_SUCCESS", "qc_pending">>,
      <<"generation_in_progress", "GENERATE_FAILED", "generation_failed">>,
      <<"generation_in_progress", "CRITICAL_FAIL", "critical_error">>,
      <<"generation_failed", "ARCHIVE", "archived">>,
      <<"qc_pending", "QC_STARTED", "qc_in_progress">>,
      <<"qc_in_progress", "QC_PASSED", "qc_passed">>,
      <<"qc_in_progress", "QC_FAILED", "qc_failed">>,
      <<"qc_in_progress", "CRITICAL_FAIL", "critical_error">>,
      <<"qc_passed", "USER_VALIDATE", "validated">>,
      <<"qc_passed", "ARCHIVE", "archived">>,
      <<"qc_passed", "REFINEMENT_NEEDED", "refinement_pending">>,
      <<"qc_failed", "REFINEMENT_NEEDED", "refinement_pending">>,
      <<"qc_failed", "USER_REDO", "refinement_pending">>,
      <<"refinement_pending", "REFINEMENT_STARTED", "refinement_in_progress">>,
      <<"refinement_in_progress", "REFINEMENT_SUCCESS", "qc_pending">>,
      <<"refinement_in_progress", "REFINEMENT_FAILED", "refinement_failed">>,
      <<"refinement_in_progress", "CRITICAL_FAIL", "critical_error">>,
      <<"refinement_failed", "ARCHIVE", "archived">>,
      <<"pending_validation", "USER_VALIDATE", "validated">>,
      <<"pending_validation", "USER_REDO", "refinement_pending">>,
      <<"validated", "ARCHIVE", "archived">>,
      <<"critical_error", "ARCHIVE", "archived">>,
      <<"qc_in_progress", "QC_FAILED", "refinement_pending">> }

\* The `transitions` dictionary of _get_allowed_transitions, as (state, event, target).
transitions ==
    { <<"pending_generation", "GENERATE_STARTED", "generation_in_progress">>,
      <<"generation_in_progress", "GENERATE_SUCCESS", "qc_pending">>,
      <<"generation_in_progress", "GENERATE_FAILED", "generation_failed">>,
      <<"generation_in_progress", "CRITICAL_FAIL", "critical_error">>,
      <<"generation_failed", "ARCHIVE", "archived">>,
      <<"qc_pending", "QC_STARTED", "qc_in_progress">>,
      <<"qc_in_progress", "QC_PASSED", "qc_passed">>,
      <<"qc_in_progress", "QC_FAILED", "qc_failed">>,
      <<"qc_in_progress", "CRITICAL_FAIL", "critical_error">>,
      <<"qc_passed", "USER_VALIDATE", "validated">>,
      <<"qc_passed", "ARCHIVE", "archived">>,
      <<"qc_passed", "REFINEMENT_NEEDED", "refinement_pending">>,
      <<"qc_failed", "REFINEMENT_NEEDED", "refinement_pending">>,
      <<"qc_failed", "USER_REDO", "refinement_pending">>,
      <<"refinement_pending", "REFINEMENT_STARTED", "refinement_in_progress">>,
      <<"refinement_in_progress", "REFINEMENT_SUCCESS", "qc_pending">>,
      <<"refinement_in_progress", "REFINEMENT_FAILED", "refinement_failed">>,
      <<"refinement_in_progress", "CRITICAL_FAIL", "critical_error">>,
      <<"refinement_failed", "ARCHIVE", "archived">>,
      <<"pending_validation", "USER_VALIDATE", "validated">>,
      <<"pending_validation", "USER_REDO", "refinement_pending">>,
      <<"validated", "ARCHIVE", "archived">>,
      <<"critical_error", "ARCHIVE", "archived">> }

\* _get_allowed_transitions with the mode rules testing the event only, not the
\* current state.
GetAllowedTransitionsAnyState(current_state, fsmMode, event) ==
    IF fsmMode = SUPERVISE /\ event = "QC_PASSED"
    THEN <<"pending_validation">>
    ELSE IF fsmMode = SUPERVISE /\ event = "QC_FAILED"
    THEN <<"refinement_pending">>
    ELSE IF fsmMode = AUTONOME /\ event = "QC_PASSED"
    THEN <<"validated">>
    ELSE IF fsmMode = AUTONOME /\ event = "QC_FAILED"
    THEN <<"refinement_pending">>
    ELSE LET m == { t \in transitions : t[1] = current_state /\ t[2] = event }
         IN  IF m = {} THEN << >> ELSE << (CHOOSE t \in m : TRUE)[3] >>

\* ContentBlockStateMachine._get_allowed_transitions: the list of target states.
GetAllowedTransitions(current_state, fsmMode, event) ==
    IF fsmMode = SUPERVISE /\ current_state = "qc_passed" /\ event = "QC_PASSED"
    THEN <<"pending_validation">>
    ELSE IF fsmMode = SUPERVISE /\ current_state = "qc_failed" /\ event = "QC_FAILED"
    THEN <<"refinement_pending">>
    ELSE IF fsmMode = AUTONOME /\ current_state = "qc_passed" /\ event = "QC_PASSED"
    THEN <<"validated">>
    ELSE IF fsmMode = AUTONOME /\ current_state = "qc_failed" /\ event = "QC_FAILED"
    THEN <<"refinement_pending">>
    ELSE LET m == { t \in transitions : t[1] = current_state /\ t[2] = event }
         IN  IF m = {} THEN << >> ELSE << (CHOOSE t \in m : TRUE)[3] >>

\* transition() leaving the machine in critical_error when it refuses an event.
TransitionRejectMoves(current_state, fsmMode, event) ==
    LET allowed == GetAllowedTransitions(current_state, fsmMode, event)
    IN  IF allowed = << >>
        THEN [ok |-> FALSE, state |-> "critical_error"]
        ELSE [ok |-> TRUE, state |-> allowed[1]]

\* ContentBlockStateMachine.transition: ok = FALSE is InvalidWorkflowStateException.
Transition(current_state, fsmMode, event) ==
    LET allowed == GetAllowedTransitions(current_state, fsmMode, event)
    IN  IF allowed = << >>
        THEN [ok |-> FALSE, state |-> current_state]
        ELSE [ok |-> TRUE, state |-> allowed[1]]

----------------------------------------------------------------------------
(* Data *)

NoReport == [none |-> TRUE]

Scores == {69, 70, 95}
ReportStatuses == {"passed", "partial_success", "failed"}

\* A QCReport: overall_score, status, and whether problems holds a critical one.
Reports == [score : Scores, status : ReportStatuses, critical : BOOLEAN]

\* A report that fails QC under every reading: status failed and score below the
\* validation threshold.
QcFailed(r) == r # NoReport /\ r.status = "failed" /\ r.score < QC_VALIDATION_THRESHOLD

\* A content_blocks row as the workflow finds it before any task ran: no report,
\* no refinement attempt.
NewBlock(slot, st) ==
    [ slot |-> slot, status |-> st, qc |-> NoReport, attempts |-> 0,
      content |-> "initial", err |-> "none" ]

\* A Celery message and the position of its execution.
\* pc: queued, running (awaiting the collaborator), processing (run_qc_task awaiting
\* process_generated_block_result, report = the QC report it passes), success, failure.
\* answer: what the collaborator answered to the task's last call ("none" before it).
Msg(task, b, isRef) ==
    [ task |-> task, block |-> b, isRef |-> isRef, retries |-> 0, pc |-> "queued",
      report |-> NoReport, answer |-> "none" ]

WTaskIds == {"gen1", "qc1", "asm", "exp"}

WTaskRow(type, b) ==
    [ task_type |-> type, block |-> b, status |-> "pending",
      delivered |-> << >>, drives |-> 0, commits |-> 0 ]

\* The status of a row nothing has worked on: the column default of ContentBlock
\* (models.py:98) or the first state of the state machine (state_machine.py:15).
InitStatuses == {"draft", "pending_generation"}

NoResp == [op |-> "none"]

\* The workflow engine before any call.
InitWorkflow ==
    /\ mode \in {SUPERVISE, AUTONOME}
    /\ projectStatus = "draft"
    /\ \E st \in [1..NumBlocks -> InitStatuses] :
          blocks = [b \in 1..NumBlocks |-> NewBlock(b, st[b])]
    /\ queue = << >>
    /\ wtasks = [t \in WTaskIds |->
                    CASE t = "gen1" -> WTaskRow("generate_block", 1)
                      [] t = "qc1"  -> WTaskRow("run_qc", 1)
                      [] t = "asm"  -> WTaskRow("assemble_document", 0)
                      [] t = "exp"  -> WTaskRow("export_document", 0)]
    /\ lastResp = NoResp
    /\ sigLog = {}
    /\ calls = [submit |-> 0, signal |-> 0, deliver |-> 0, update |-> 0]
    /\ qcFails = [s \in 1..NumBlocks |-> 0]

NoScoreInputs == [none |-> TRUE]

NoFsm == [none |-> TRUE]

\* No plan has been asked of the planner.
NoPlanner == [none |-> TRUE]

Init ==
    /\ InitWorkflow
    /\ scoreInputs = NoScoreInputs
    /\ scoreReport = NoReport
    /\ fsm = NoFsm
    /\ planner = NoPlanner

----------------------------------------------------------------------------
(* The store, as a value handlers thread through their statements *)

World == [blocks |-> blocks, queue |-> queue, ps |-> projectStatus]

Merge(rec, delta) ==
    [f \in DOMAIN rec |-> IF f \in DOMAIN delta THEN delta[f] ELSE rec[f]]

\* ContentBlockRepository.update: unconditional write of the given fields.
UpdateBlock(w, b, delta) ==
    [w EXCEPT !.blocks[b] = Merge(@, delta)]

\* _update_block_status: qc_report and error_message are sent only when truthy.
UpdateBlockStatus(w, b, st, qc_report, error_message) ==
    LET d1 == [status |-> st]
        d2 == IF qc_report # NoReport THEN [status |-> st, qc |-> qc_report] ELSE d1
        d3 == IF error_message # "none"
              THEN [f \in DOMAIN d2 \cup {"err"} |->
                        IF f = "err" THEN error_message ELSE d2[f]]
              ELSE d2
    IN  UpdateBlock(w, b, d3)

\* ProjectRepository.update: unconditional write of status.
UpdateProjectStatus(w, st) == [w EXCEPT !.ps = st]

\* apply_async losing the message.
ApplyAsyncLost(w, msg) == w

\* task.apply_async / task.delay: the message is appended, nothing is looked up.
ApplyAsync(w, msg) == [w EXCEPT !.queue = Append(@, msg)]

----------------------------------------------------------------------------
(* Environment: a caller submits generate_content_block_task for a block *)

\* The environment makes at most MaxCalls calls in all.
Budget == calls.submit + calls.signal + calls.deliver + calls.update < MaxCalls

SubmitGenerate(b) ==
    /\ Budget /\ calls.submit < MaxSubmits
    /\ Len(queue) < MaxQueue
    /\ queue' = Append(queue, Msg("generate", b, FALSE))
    /\ calls' = [calls EXCEPT !.submit = @ + 1]
    /\ UNCHANGED <<mode, qcFails, scoreInputs, scoreReport, fsm, planner, projectStatus, blocks, wtasks, lastResp, sigLog>>

----------------------------------------------------------------------------
(* AutonomousLogic *)

ProcessedStatuses == {"validated", "generation_failed", "refinement_failed", "archived"}

\* _advance_autonomous_plan: when every block of the version is processed, mark the
\* project completed, enqueue the assembly and mark the project export_pending.
AdvanceAutonomousPlan(w) ==
    IF \A b \in DOMAIN w.blocks : w.blocks[b].status \in ProcessedStatuses
    THEN UpdateProjectStatus(
             ApplyAsync(UpdateProjectStatus(w, "completed"), Msg("assemble", 0, FALSE)),
             "export_pending")
    ELSE w

\* _create_new_block_version_for_refinement: archive the original, then create a row
\* copied from it with status qc_pending and refinement_attempts + 1.
NewBlockId(w) == Cardinality(DOMAIN w.blocks) + 1

CreateNewBlockVersionForRefinement(w, b) ==
    LET w1 == UpdateBlockStatus(w, b, "archived", NoReport, "none")
        id == NewBlockId(w1)
        row == [ slot |-> w.blocks[b].slot, status |-> "qc_pending", qc |-> NoReport,
                 attempts |-> w.blocks[b].attempts + 1,
                 content |-> w.blocks[b].content, err |-> "none" ]
    IN  [w1 EXCEPT !.blocks = [i \in DOMAIN w1.blocks \cup {id} |->
                                  IF i = id THEN row ELSE w1.blocks[i]]]

\* process_generated_block_result.  Returns the store after the statements that ran
\* and the exception that ended the call ("none" when it returned).
ProcessGeneratedBlockResult(w, b, qc_report) ==
    LET block == w.blocks[b] IN
    IF mode # AUTONOME THEN [w |-> w, exc |-> "BadRequest"]
    ELSE IF block.status \notin BLOCK_STATES THEN [w |-> w, exc |-> "ValueError"]
    ELSE IF qc_report = NoReport THEN [w |-> w, exc |-> "AttributeError"]
    ELSE IF qc_report.status = "passed" /\ qc_report.score >= QC_VALIDATION_THRESHOLD
    THEN LET tr == Transition(block.status, mode, EVENTS["QC_PASSED"]) IN
         IF ~tr.ok THEN [w |-> w, exc |-> "InvalidWorkflowState"]
         ELSE [w |-> AdvanceAutonomousPlan(
                        UpdateBlockStatus(w, b, tr.state, qc_report, "none")),
               exc |-> "none"]
    ELSE IF block.attempts < MAX_REFINEMENT_ATTEMPTS
    THEN LET tr == Transition(block.status, mode, EVENTS["QC_FAILED"]) IN
         IF ~tr.ok THEN [w |-> w, exc |-> "InvalidWorkflowState"]
         ELSE LET w1 == UpdateBlockStatus(w, b, tr.state, qc_report, "none")
                  w2 == CreateNewBlockVersionForRefinement(w1, b)
                  id == NewBlockId(w1)
                  w3 == ApplyAsync(w2, Msg("generate", id, TRUE))
              IN  [w |-> UpdateBlockStatus(w3, id, EVENTS["REFINEMENT_STARTED"],
                                           NoReport, "none"),
                   exc |-> "none"]
    ELSE LET tr == Transition(block.status, mode, EVENTS["REFINEMENT_FAILED"]) IN
         IF ~tr.ok THEN [w |-> w, exc |-> "InvalidWorkflowState"]
         ELSE [w |-> AdvanceAutonomousPlan(
                        UpdateBlockStatus(w, b, tr.state, qc_report, "max_attempts")),
               exc |-> "none"]

----------------------------------------------------------------------------
(* Celery worker tasks *)

\* self.retry granting one retry too many.
RetryOneMore(m, max_retries) ==
    IF m.retries <= max_retries
    THEN [m EXCEPT !.retries = @ + 1, !.pc = "queued"]
    ELSE [m EXCEPT !.pc = "failure"]

\* self.retry: re-queued with retries + 1 while retries < max_retries, else failed.
Retry(m, max_retries) ==
    IF m.retries < max_retries
    THEN [m EXCEPT !.retries = @ + 1, !.pc = "queued"]
    ELSE [m EXCEPT !.pc = "failure"]

GenOutcomes == {"ok", "http4xx", "http5xx", "rate_limit", "network"}
HttpOutcomes == {"ok", "http4xx", "http5xx", "network"}

\* Commit a store value to the variables; the queue never grows past MaxQueue.
Commit(w) ==
    /\ Len(w.queue) <= MaxQueue
    /\ blocks' = w.blocks
    /\ queue' = w.queue
    /\ projectStatus' = w.ps

\* generate_content_block_task, up to the call of the generation/refinement service:
\* the block's status is overwritten with EVENTS[...STARTED].
GenerateStart(i) ==
    /\ queue[i].task = "generate" /\ queue[i].pc = "queued"
    /\ LET m == queue[i]
           st == IF ~m.isRef THEN EVENTS["GENERATE_STARTED"] ELSE EVENTS["REFINEMENT_STARTED"]
           w1 == UpdateBlock(World, m.block, [status |-> st])
       IN  Commit([w1 EXCEPT !.queue[i].pc = "running"])
    /\ UNCHANGED <<mode, qcFails, scoreInputs, scoreReport, fsm, planner, wtasks, lastResp, sigLog, calls>>

\* generate_content_block_task, from the service's answer to the end of the task.
GenerateFinish(i, outcome) ==
    /\ queue[i].task = "generate" /\ queue[i].pc = "running"
    /\ LET m == queue[i]
           b == m.block
           failKey == IF ~m.isRef THEN "GENERATION_FAILED" ELSE "REFINEMENT_FAILED"
       IN  IF outcome = "ok"
           THEN LET st == IF ~m.isRef THEN EVENTS["GENERATE_SUCCESS"]
                          ELSE EVENTS["REFINEMENT_SUCCESS"]
                    w1 == UpdateBlock(World, b,
                              [content |-> IF m.isRef THEN "refined" ELSE "generated",
                               status |-> st])
                    w2 == ApplyAsync(w1, Msg("run_qc", b, FALSE))
                IN  Commit([w2 EXCEPT !.queue[i].pc = "success", !.queue[i].answer = outcome])
           ELSE IF failKey \notin DOMAIN EVENTS
           THEN \* KeyError raised inside the except clause: no write, no retry
                Commit([World EXCEPT !.queue[i].pc = "failure", !.queue[i].answer = outcome])
           ELSE LET w1 == UpdateBlock(World, b,
                              [status |-> EVENTS[failKey],
                               err |-> IF outcome = "network" THEN "network" ELSE "service"])
                IN  IF outcome \in {"http5xx", "rate_limit", "network"}
                    THEN Commit([w1 EXCEPT !.queue[i] =
                                    Retry([@ EXCEPT !.answer = outcome], MAX_REFINEMENT_ATTEMPTS)])
                    ELSE Commit([w1 EXCEPT !.queue[i].pc = "failure",
                                           !.queue[i].answer = outcome])
    /\ UNCHANGED <<mode, qcFails, scoreInputs, scoreReport, fsm, planner, wtasks, lastResp, sigLog, calls>>

\* run_qc_task, up to the call of the QC service.
QcStart(i) ==
    /\ queue[i].task = "run_qc" /\ queue[i].pc = "queued"
    /\ LET w1 == UpdateBlock(World, queue[i].block, [status |-> EVENTS["QC_STARTED"]])
       IN  Commit([w1 EXCEPT !.queue[i].pc = "running"])
    /\ UNCHANGED <<mode, qcFails, scoreInputs, scoreReport, fsm, planner, wtasks, lastResp, sigLog, calls>>

\* run_qc_task, from the QC service's answer to the write of the report and of
\* EVENTS["QC_PASSED"] / EVENTS["QC_FAILED"] (or of the failure).
QcFinish(i, outcome, report) ==
    /\ queue[i].task = "run_qc" /\ queue[i].pc = "running"
    /\ LET b == queue[i].block IN
       IF outcome = "ok"
       THEN LET w1 == UpdateBlock(World, b,
                          [qc |-> report,
                           status |-> IF report.status = "passed"
                                      THEN EVENTS["QC_PASSED"] ELSE EVENTS["QC_FAILED"]])
            IN  IF mode = AUTONOME
                THEN Commit([w1 EXCEPT !.queue[i].pc = "processing",
                                       !.queue[i].report = report,
                                       !.queue[i].answer = outcome])
                ELSE Commit([w1 EXCEPT !.queue[i].pc = "success", !.queue[i].answer = outcome])
       ELSE LET w1 == UpdateBlock(World, b,
                          [status |-> EVENTS["QC_FAILED"],
                           err |-> IF outcome = "network" THEN "network" ELSE "service"])
            IN  /\ report = CHOOSE r \in Reports : TRUE
                /\ IF outcome \in {"http5xx", "network"}
                   THEN Commit([w1 EXCEPT !.queue[i] =
                                   Retry([@ EXCEPT !.answer = outcome], QC_MAX_RETRIES)])
                   ELSE Commit([w1 EXCEPT !.queue[i].pc = "failure",
                                          !.queue[i].answer = outcome])
    /\ qcFails' = IF outcome # "ok" THEN qcFails
                  ELSE [qcFails EXCEPT ![blocks[queue[i].block].slot] =
                                          IF QcFailed(report) THEN @ + 1 ELSE 0]
    /\ UNCHANGED <<mode, scoreInputs, scoreReport, fsm, planner, wtasks, lastResp, sigLog, calls>>

\* run_qc_task in autonomous mode: the call of process_generated_block_result and,
\* when it raises, the except clause that marks the block EVENTS["CRITICAL_FAIL"].
QcProcess(i) ==
    /\ queue[i].task = "run_qc" /\ queue[i].pc = "processing"
    /\ LET b == queue[i].block
           r == ProcessGeneratedBlockResult(World, b, queue[i].report)
       IN  IF r.exc = "none"
           THEN Commit([r.w EXCEPT !.queue[i].pc = "success", !.queue[i].report = NoReport])
           ELSE LET w2 == UpdateBlock(r.w, b,
                              [status |-> EVENTS["CRITICAL_FAIL"], err |-> "internal"])
                IN  Commit([w2 EXCEPT !.queue[i].pc = "failure",
                                      !.queue[i].report = NoReport])
    /\ UNCHANGED <<mode, qcFails, scoreInputs, scoreReport, fsm, planner, wtasks, lastResp, sigLog, calls>>

\* assemble_document_task: on success the export is enqueued; an HTTP error fails the
\* task, a network error retries it.
AssembleRun(i, outcome) ==
    /\ queue[i].task = "assemble" /\ queue[i].pc = "queued"
    /\ IF outcome = "ok"
       THEN Commit([ApplyAsync(World, Msg("export", 0, FALSE))
                       EXCEPT !.queue[i].pc = "success", !.queue[i].answer = outcome])
       ELSE IF outcome = "network"
       THEN Commit([World EXCEPT !.queue[i] =
                       Retry([@ EXCEPT !.answer = outcome], ASSEMBLE_MAX_RETRIES)])
       ELSE Commit([World EXCEPT !.queue[i].pc = "failure", !.queue[i].answer = outcome])
    /\ UNCHANGED <<mode, qcFails, scoreInputs, scoreReport, fsm, planner, wtasks, lastResp, sigLog, calls>>

\* export_document_task.
ExportRun(i, outcome) ==
    /\ queue[i].task = "export" /\ queue[i].pc = "queued"
    /\ IF outcome = "ok"
       THEN Commit([World EXCEPT !.queue[i].pc = "success", !.queue[i].answer = outcome])
       ELSE IF outcome = "network"
       THEN Commit([World EXCEPT !.queue[i] =
                       Retry([@ EXCEPT !.answer = outcome], EXPORT_MAX_RETRIES)])
       ELSE Commit([World EXCEPT !.queue[i].pc = "failure", !.queue[i].answer = outcome])
    /\ UNCHANGED <<mode, qcFails, scoreInputs, scoreReport, fsm, planner, wtasks, lastResp, sigLog, calls>>

----------------------------------------------------------------------------
(* SupervisorLogic and the signal endpoint *)

\* The user signals sent to the model: a WorkflowSignal is (signal_type, block_id,
\* feedback present).  block 0 is "no block_id".
Signals ==
    { [sig |-> "VALIDATED", block |-> 1, fb |-> FALSE],
      [sig |-> "VALIDATED", block |-> 0, fb |-> FALSE],
      [sig |-> "REDO", block |-> 1, fb |-> TRUE],
      [sig |-> "REDO", block |-> 1, fb |-> FALSE],
      [sig |-> "ALL_APPROVED", block |-> 0, fb |-> FALSE],
      [sig |-> "CANCEL_PROJECT", block |-> 0, fb |-> FALSE] }

\* handle_user_signal without the test of project.mode.
HandleUserSignalAnyMode(w, signal) ==
    LET hasBlock == signal.block # 0
        block == w.blocks[signal.block]
    IN
    IF hasBlock /\ block.status \notin BLOCK_STATES THEN [w |-> w, exc |-> "ValueError"]
    ELSE IF signal.sig = "VALIDATED"
    THEN IF ~hasBlock THEN [w |-> w, exc |-> "BadRequest"]
         ELSE LET tr == Transition(block.status, mode, EVENTS["USER_VALIDATE"]) IN
              IF ~tr.ok THEN [w |-> w, exc |-> "InvalidWorkflowState"]
              ELSE [w |-> UpdateBlockStatus(w, signal.block, tr.state, NoReport, "none"),
                    exc |-> "none"]
    ELSE IF signal.sig = "REDO"
    THEN IF ~hasBlock \/ ~signal.fb THEN [w |-> w, exc |-> "BadRequest"]
         ELSE LET tr == Transition(block.status, mode, EVENTS["USER_REDO"]) IN
              IF ~tr.ok THEN [w |-> w, exc |-> "InvalidWorkflowState"]
              ELSE [w |-> ApplyAsync(
                             UpdateBlockStatus(w, signal.block, tr.state, NoReport, "none"),
                             Msg("generate", signal.block, TRUE)),
                    exc |-> "none"]
    ELSE IF signal.sig = "ALL_APPROVED"
    THEN IF w.ps # "completed" THEN [w |-> w, exc |-> "BadRequest"]
         ELSE [w |-> UpdateProjectStatus(ApplyAsync(w, Msg("assemble", 0, FALSE)),
                                         "export_pending"),
               exc |-> "none"]
    ELSE [w |-> w, exc |-> "BadRequest"]

\* SupervisorLogic.handle_user_signal.  Returns the store after the statements that
\* ran and the exception that ended the call ("none" when it returned the project).
HandleUserSignal(w, signal) ==
    LET hasBlock == signal.block # 0
        block == w.blocks[signal.block]
    IN
    IF mode # SUPERVISE THEN [w |-> w, exc |-> "BadRequest"]
    ELSE IF hasBlock /\ block.status \notin BLOCK_STATES THEN [w |-> w, exc |-> "ValueError"]
    ELSE IF signal.sig = "VALIDATED"
    THEN IF ~hasBlock THEN [w |-> w, exc |-> "BadRequest"]
         ELSE LET tr == Transition(block.status, mode, EVENTS["USER_VALIDATE"]) IN
              IF ~tr.ok THEN [w |-> w, exc |-> "InvalidWorkflowState"]
              ELSE [w |-> UpdateBlockStatus(w, signal.block, tr.state, NoReport, "none"),
                    exc |-> "none"]
    ELSE IF signal.sig = "REDO"
    THEN IF ~hasBlock \/ ~signal.fb THEN [w |-> w, exc |-> "BadRequest"]
         ELSE LET tr == Transition(block.status, mode, EVENTS["USER_REDO"]) IN
              IF ~tr.ok THEN [w |-> w, exc |-> "InvalidWorkflowState"]
              ELSE [w |-> ApplyAsync(
                             UpdateBlockStatus(w, signal.block, tr.state, NoReport, "none"),
                             Msg("generate", signal.block, TRUE)),
                    exc |-> "none"]
    ELSE IF signal.sig = "ALL_APPROVED"
    THEN IF w.ps # "completed" THEN [w |-> w, exc |-> "BadRequest"]
         ELSE [w |-> UpdateProjectStatus(ApplyAsync(w, Msg("assemble", 0, FALSE)),
                                         "export_pending"),
               exc |-> "none"]
    ELSE [w |-> w, exc |-> "BadRequest"]

\* The HTTP answer an endpoint gives for an exception of the logic: NotFound,
\* BadRequest and its subclass InvalidWorkflowStateException are re-raised (400 with
\* the exception's detail), anything else is answered 500.
ResponseKind(exc) ==
    CASE exc = "none" -> "ok"
      [] exc = "InvalidWorkflowState" -> "invalid_transition"
      [] exc = "BadRequest" -> "bad_request"
      [] OTHER -> "internal"

\* handle_project_signal: dispatch on project.mode.
SignalResult(w, signal) ==
    IF mode = SUPERVISE THEN HandleUserSignal(w, signal)
    ELSE IF signal.sig = "ALL_APPROVED"
    THEN [w |-> UpdateProjectStatus(ApplyAsync(w, Msg("assemble", 0, FALSE)),
                                    "export_pending"),
          exc |-> "none"]
    ELSE [w |-> w, exc |-> "BadRequest"]

HandleProjectSignal(signal) ==
    /\ Budget /\ calls.signal < MaxSignals
    /\ LET r == SignalResult(World, signal) IN
       /\ Commit(r.w)
       /\ lastResp' = [ op |-> "signal", signal |-> signal, kind |-> ResponseKind(r.exc),
                        pre |-> IF signal.block # 0 THEN blocks[signal.block].status
                                ELSE "none",
                        changed |-> r.w # World,
                        dup |-> signal \in sigLog ]
    /\ sigLog' = sigLog \cup {signal}
    /\ calls' = [calls EXCEPT !.signal = @ + 1]
    /\ UNCHANGED <<mode, qcFails, scoreInputs, scoreReport, fsm, planner, wtasks>>

----------------------------------------------------------------------------
(* The task-completion endpoint *)

PassingReport == [score |-> 95, status |-> "passed", critical |-> FALSE]
FailingReport == [score |-> 69, status |-> "failed", critical |-> FALSE]

\* result_data of a completion: success flag and the qc_report of result (or none).
Results == [success : BOOLEAN, report : {NoReport, PassingReport, FailingReport}]

\* complete_workflow_task, after the task row is loaded: the row's status is
\* overwritten, then the result is routed by task_type and project.mode.
\* Returns the store, the exception, whether the policy was driven and the number
\* of block/project commits made for this result.
CompletionResult(w, row, result) ==
    IF row.task_type \in {"generate_block", "refine_block", "run_qc"}
    THEN IF mode = AUTONOME
         THEN LET r == ProcessGeneratedBlockResult(w, row.block, result.report)
              IN  [w |-> r.w, exc |-> r.exc, drove |-> 1,
                   commits |-> IF r.w.blocks # w.blocks \/ r.w.ps # w.ps THEN 1 ELSE 0]
         ELSE [w |-> w, exc |-> "none", drove |-> 0, commits |-> 0]
    ELSE IF row.task_type = "assemble_document"
    THEN IF result.success
         THEN [w |-> UpdateProjectStatus(w, "assembled"), exc |-> "none",
               drove |-> 1, commits |-> 1]
         ELSE \* update_project_state() takes no error_message argument: TypeError
              [w |-> w, exc |-> "TypeError", drove |-> 1, commits |-> 0]
    ELSE IF result.success
         THEN [w |-> UpdateProjectStatus(w, "completed_exported"), exc |-> "none",
               drove |-> 1, commits |-> 1]
         ELSE [w |-> w, exc |-> "TypeError", drove |-> 1, commits |-> 0]

CompleteWorkflowTask(t, result) ==
    /\ Budget /\ calls.deliver < MaxDeliveries
    /\ Len(wtasks[t].delivered) < 2
    /\ LET row == wtasks[t]
           r == CompletionResult(World, row, result)
       IN  /\ Commit(r.w)
           /\ wtasks' = [wtasks EXCEPT
                            ![t].status = IF result.success THEN "completed" ELSE "failed",
                            ![t].delivered = Append(@, result),
                            ![t].drives = @ + r.drove,
                            ![t].commits = @ + r.commits]
           /\ lastResp' = [ op |-> "complete", task |-> t, kind |-> ResponseKind(r.exc),
                            dup |-> row.delivered # << >> ]
    /\ calls' = [calls EXCEPT !.deliver = @ + 1]
    /\ UNCHANGED <<mode, qcFails, scoreInputs, scoreReport, fsm, planner, sigLog>>

----------------------------------------------------------------------------
(* API gateway: PUT /projects/{id} forwards the client's ProjectUpdate, status
   included, to ProjectRepository.update *)

GatewayStatuses == {"cancelled", "completed"}

UpdateProject(st) ==
    /\ Budget /\ calls.update < MaxProjectUpdates
    /\ projectStatus' = st
    /\ calls' = [calls EXCEPT !.update = @ + 1]
    /\ UNCHANGED <<mode, qcFails, scoreInputs, scoreReport, fsm, planner, blocks, queue, wtasks, lastResp, sigLog>>

----------------------------------------------------------------------------
Next ==
    \/ \E b \in DOMAIN blocks : SubmitGenerate(b)
    \/ \E i \in DOMAIN queue : GenerateStart(i)
    \/ \E i \in DOMAIN queue, o \in GenOutcomes : GenerateFinish(i, o)
    \/ \E i \in DOMAIN queue : QcStart(i)
    \/ \E i \in DOMAIN queue, o \in HttpOutcomes, r \in Reports : QcFinish(i, o, r)
    \/ \E i \in DOMAIN queue : QcProcess(i)
    \/ \E i \in DOMAIN queue, o \in HttpOutcomes : AssembleRun(i, o)
    \/ \E i \in DOMAIN queue, o \in HttpOutcomes : ExportRun(i, o)
    \/ \E s \in Signals : HandleProjectSignal(s)
    \/ \E t \in WTaskIds, r \in Results : CompleteWorkflowTask(t, r)
    \/ \E st \in GatewayStatuses : UpdateProject(st)

Spec == Init /\ [][Next]_vars

----------------------------------------------------------------------------
(* Properties *)

EventNames == DOMAIN EVENTS
Modes == {SUPERVISE, AUTONOME}

\* (s, t) such that the FSM's table has an entry (s, e, t) for some event e.
TablePairs ==
    { p \in BLOCK_STATES \X BLOCK_STATES :
        \E e \in EventNames, m \in Modes : GetAllowedTransitions(p[1], m, e) = << p[2] >> }

StatusChanged(b) == b \in DOMAIN blocks' /\ blocks'[b].status # blocks[b].status

\* C1: every change of a block's persisted status, by a worker task, a user signal
\* or the autonomous policy, follows an entry (s, e, s') of the transition table.
C1_EveryStatusChangeInTable ==
    [][\A b \in DOMAIN blocks :
          StatusChanged(b) => <<blocks[b].status, blocks'[b].status>> \in TablePairs]_vars

\* C4: a task completion delivered twice with the same result has the effect of
\* one delivery: the second neither drives the workflow nor commits state again.
C4_DuplicateCompletionAbsorbed ==
    \A t \in WTaskIds :
        (Len(wtasks[t].delivered) = 2 /\ wtasks[t].delivered[1] = wtasks[t].delivered[2])
            => (wtasks[t].drives <= 1 /\ wtasks[t].commits <= 1)

\* C5: a task marked completed by complete_workflow_task has exactly one commit of
\* block or project state made for its result.
C5_CompletedTaskCommittedOnce ==
    \A t \in WTaskIds : wtasks[t].status = "completed" => wtasks[t].commits = 1

\* The idempotency key of a block-scoped message.
KeyOf(m) == <<m.block, m.task, m.isRef, blocks[m.block].attempts>>
Claimed(m) == m.task \in {"generate", "run_qc"} /\ m.pc \in {"running", "processing"}

\* C6: at most one task per block-scoped idempotency key is claimed at a time.
C6_OneClaimPerKey ==
    \A i, j \in DOMAIN queue :
        (i # j /\ Claimed(queue[i]) /\ Claimed(queue[j]))
            => KeyOf(queue[i]) # KeyOf(queue[j])

ProjectClosed == projectStatus \in {"cancelled", "completed_exported"}

\* C7: once the project is cancelled or completed_exported, no block changes status.
C7_NoBlockChangeAfterCancel ==
    [][ProjectClosed => \A b \in DOMAIN blocks : ~StatusChanged(b)]_vars

\* The FSM event a block signal stands for.
SignalEvent(sig) == IF sig = "VALIDATED" THEN "USER_VALIDATE" ELSE "USER_REDO"

\* The last call was a well-formed VALIDATED or REDO signal on a supervised project
\* whose event the table does not allow from the status the block had.
IllegalSignalAnswered ==
    /\ lastResp.op = "signal"
    /\ mode = SUPERVISE
    /\ lastResp.signal.sig \in {"VALIDATED", "REDO"}
    /\ lastResp.signal.block # 0
    /\ lastResp.signal.sig = "REDO" => lastResp.signal.fb
    /\ GetAllowedTransitions(lastResp.pre, mode, SignalEvent(lastResp.signal.sig)) = << >>

\* C8: a signal that is not legal from the block's current state is answered
\* invalid_transition and changes neither the project, the block nor the queue.
C8_IllegalSignalRejected ==
    IllegalSignalAnswered => (lastResp.kind = "invalid_transition" /\ ~lastResp.changed)

\* C9: a user signal received a second time changes neither the project, the
\* blocks nor the queue.
C9_DuplicateSignalAbsorbed ==
    (lastResp.op = "signal" /\ lastResp.dup) => ~lastResp.changed

HappyPath ==
    << "pending_generation", "generation_in_progress", "qc_pending",
       "qc_in_progress", "qc_passed", "validated" >>
HappyPairs == { <<HappyPath[k], HappyPath[k + 1]>> : k \in 1..(Len(HappyPath) - 1) }

\* No collaborator failure was recorded on the block and its QC report, if any, is
\* the passing one (score 95, passed, no critical problem).
HappyRun(blk) ==
    /\ blk.qc \in {NoReport, PassingReport}
    /\ blk.err \in {"none", "internal"}

\* C10: in autonomous mode, with generation succeeding and QC passing, the block's
\* persisted status only ever moves one step along pending_generation,
\* generation_in_progress, qc_pending, qc_in_progress, qc_passed, validated.
C10_HappyPathOrder ==
    [][mode = AUTONOME =>
         \A b \in DOMAIN blocks :
            (StatusChanged(b) /\ HappyRun(blocks'[b]))
                => <<blocks[b].status, blocks'[b].status>> \in HappyPairs]_vars

\* In this step run_qc_task i hands its report to the autonomous policy and ends.
QcResultProcessed(i) ==
    /\ mode = AUTONOME
    /\ queue[i].task = "run_qc" /\ queue[i].pc = "processing"
    /\ queue'[i].pc # "processing"

\* The step created a successor of block b in the same slot, archived b without
\* touching its content and enqueued a refine task for the successor.
RefinedInStep(b) ==
    /\ blocks'[b].status = "archived"
    /\ blocks'[b].content = blocks[b].content
    /\ \E n \in DOMAIN blocks' \ DOMAIN blocks :
          /\ blocks'[n].slot = blocks[b].slot
          /\ blocks'[n].attempts = blocks[b].attempts + 1
          /\ \E j \in DOMAIN queue' \ DOMAIN queue :
                /\ queue'[j].task = "generate" /\ queue'[j].isRef
                /\ queue'[j].block = n

\* C11: in autonomous mode a QC failure on a block with refinement_attempts below
\* MAX_REFINEMENT_ATTEMPTS archives the block unmodified, creates its successor in
\* the same slot with one more attempt and enqueues a refine task for the successor.
C11_QcFailureStartsRefinement ==
    [][\A i \in DOMAIN queue :
          (/\ QcResultProcessed(i)
           /\ QcFailed(queue[i].report)
           /\ blocks[queue[i].block].attempts < MAX_REFINEMENT_ATTEMPTS)
              => RefinedInStep(queue[i].block)]_vars

----------------------------------------------------------------------------
(* Repeated generation and QC of the blocks of an autonomous project *)

MaxQcFailures == 6

Finished(m) == m.pc \in {"success", "failure"}

\* task_acks_late: a message is acknowledged after its execution and leaves the broker.
ForgetFinished ==
    /\ queue # << >>
    /\ \A i \in DOMAIN queue : Finished(queue[i])
    /\ queue' = << >>
    /\ UNCHANGED <<mode, qcFails, scoreInputs, scoreReport, fsm, planner, projectStatus, blocks, wtasks, lastResp, sigLog, calls>>

\* A caller submits generate_content_block_task for a block once the broker is empty.
RequestGeneration(b) ==
    /\ queue = << >>
    /\ qcFails[blocks[b].slot] < MaxQcFailures
    /\ queue' = << Msg("generate", b, FALSE) >>
    /\ UNCHANGED <<mode, qcFails, scoreInputs, scoreReport, fsm, planner, projectStatus, blocks, wtasks, lastResp, sigLog, calls>>

InitRefinement == Init /\ mode = AUTONOME

NextRefinement ==
    \/ \E b \in DOMAIN blocks : RequestGeneration(b)
    \/ \E i \in DOMAIN queue : GenerateStart(i)
    \/ \E i \in DOMAIN queue : GenerateFinish(i, "ok")
    \/ \E i \in DOMAIN queue : QcStart(i)
    \/ \E i \in DOMAIN queue, r \in {PassingReport, FailingReport} : QcFinish(i, "ok", r)
    \/ \E i \in DOMAIN queue : QcProcess(i)
    \/ ForgetFinished

SpecRefinement == InitRefinement /\ [][NextRefinement]_vars

\* C12: in autonomous mode, once QC has failed MAX_REFINEMENT_ATTEMPTS + 1 times in
\* a row on a slot (the first block and its five refinements) and no task is
\* left, a block of the slot is in refinement_failed and the project is in
\* needs_manual_review.
C12_ExhaustedSlotEndsRefinementFailed ==
    \A s \in 1..NumBlocks :
        (/\ mode = AUTONOME
         /\ qcFails[s] >= MAX_REFINEMENT_ATTEMPTS + 1
         /\ \A i \in DOMAIN queue : Finished(queue[i]))
            => (/\ \E b \in DOMAIN blocks :
                      blocks[b].slot = s /\ blocks[b].status = "refinement_failed"
                /\ projectStatus = "needs_manual_review")

----------------------------------------------------------------------------
(* Supervised mode *)

\* A report that passes QC under every reading: status passed, score at or above the
\* validation threshold, no critical problem.
QcPassed(r) ==
    r # NoReport /\ r.status = "passed" /\ r.score >= QC_VALIDATION_THRESHOLD /\ ~r.critical

\* In this step run_qc_task i of a supervised project receives the QC service's report
\* for block b and ends.
SupervisedQcReported(i, b) ==
    /\ mode = SUPERVISE
    /\ queue[i].task = "run_qc" /\ queue[i].pc = "running" /\ queue[i].block = b
    /\ queue'[i].pc = "success"

\* In this step the signal endpoint answered a signal on block b of a supervised project.
SignalHandled(sig, b) ==
    /\ mode = SUPERVISE
    /\ calls'.signal = calls.signal + 1
    /\ lastResp'.signal.sig = sig /\ lastResp'.signal.block = b

\* C13: in supervised mode a QC pass leaves the block in pending_validation and
\* enqueues nothing; from pending_validation VALIDATED moves the block to validated
\* and REDO with feedback moves it to refinement and enqueues exactly one refine task.
C13_SupervisedPassAwaitsUser ==
    [][\A b \in DOMAIN blocks :
          /\ \A i \in DOMAIN queue :
                (SupervisedQcReported(i, b) /\ QcPassed(blocks'[b].qc))
                    => (blocks'[b].status = "pending_validation" /\ Len(queue') = Len(queue))
          /\ (SignalHandled("VALIDATED", b) /\ blocks[b].status = "pending_validation")
                => blocks'[b].status = "validated"
          /\ (SignalHandled("REDO", b) /\ lastResp'.signal.fb
                /\ blocks[b].status = "pending_validation")
                => (/\ blocks'[b].status \in {"refinement_pending", "refinement_in_progress"}
                    /\ Len(queue') = Len(queue) + 1
                    /\ queue'[Len(queue')].task = "generate"
                    /\ queue'[Len(queue')].isRef)]_vars

\* C14: in supervised mode a QC failure leaves the block in qc_failed and enqueues
\* no task: nothing moves the block towards refinement until the user signals.
C14_SupervisedFailureParks ==
    [][\A b \in DOMAIN blocks : \A i \in DOMAIN queue :
          (SupervisedQcReported(i, b) /\ QcFailed(blocks'[b].qc))
              => (blocks'[b].status = "qc_failed" /\ Len(queue') = Len(queue))]_vars

----------------------------------------------------------------------------
(* Thresholds of the autonomous policy *)

\* C15: in autonomous mode a report whose score is exactly the validation threshold
\* and that has no critical problem leads to validated, and a report whose score is
\* one below the threshold leads to the refinement branch, whatever its status string.
C15_ThresholdBoundary ==
    [][\A i \in DOMAIN queue :
          QcResultProcessed(i) =>
            LET b == queue[i].block
                r == queue[i].report
            IN  /\ (r.score = QC_VALIDATION_THRESHOLD /\ ~r.critical)
                      => blocks'[b].status = "validated"
                /\ (r.score = QC_VALIDATION_THRESHOLD - 1
                      /\ blocks[b].attempts < MAX_REFINEMENT_ATTEMPTS)
                      => RefinedInStep(b)]_vars

----------------------------------------------------------------------------
(* Persisted values *)

\* C17: every value a worker task, a signal or a policy writes into the status of a
\* block, and the status of every block it creates, is one of the 14 states of
\* BLOCK_STATES.
C17_StatusWritesAreFsmStates ==
    [][\A b \in DOMAIN blocks' :
          (b \notin DOMAIN blocks \/ StatusChanged(b))
              => blocks'[b].status \in BLOCK_STATES]_vars

\* C18: a block nothing has acted on yet, and every block an operation creates, has
\* status pending_generation.
C18_NewBlockPendingGeneration ==
    /\ \A b \in DOMAIN blocks : blocks[b].status = "pending_generation"
    /\ [][\A b \in DOMAIN blocks' \ DOMAIN blocks :
             blocks'[b].status = "pending_generation"]_vars

ProjectStatuses ==
    { "draft", "in_progress", "export_pending", "export_failed", "completed",
      "completed_exported", "cancelled" }

\* C19: the project status is always one of draft, in_progress, export_pending,
\* export_failed, completed, completed_exported, cancelled, and once it is
\* completed_exported or cancelled no step changes it.
C19_ProjectStatusDomainAndTerminal ==
    /\ [](projectStatus \in ProjectStatuses)
    /\ [][ProjectClosed => projectStatus' = projectStatus]_vars

----------------------------------------------------------------------------
(* QC service: ScoreCalculator *)

\* Scores are kept in tenths of a point (90 is written 900) so that the weights
\* 0.5, 0.3 and 0.2 stay integers; confidence is kept in hundredths (1.0 is 100).
\* A problem is represented by its severity.
MaxProblems == 1

Severities == {"critical", "major", "minor", "warning"}
SubScores == {0, 60, 100}
ProblemLists == UNION { [1..n -> Severities] : n \in 0..MaxProblems }

ScoreInputs ==
    [ math : [confidence : SubScores, problems : ProblemLists],
      pedagogic : [score : SubScores, problems : ProblemLists],
      coherence : [score : SubScores, problems : ProblemLists] ]

HasCritical(problems) == \E k \in DOMAIN problems : problems[k] = "critical"

\* The calculator with the critical severity spelt differently from the problems'
\* "critical": no penalty, no cap and no forced status for such a problem.
CalculateOverallScoreCriticalUnknown(math_report, pedagogic_report, coherence_report) ==
    LET problems == math_report.problems \o pedagogic_report.problems
                        \o coherence_report.problems
        Penalty(sev) == CASE sev = "major" -> 200
                          [] sev = "minor" -> 50
                          [] OTHER -> 0
        RECURSIVE ApplyPenalties(_, _)
        ApplyPenalties(score, k) ==
            IF k > Len(problems) THEN score
            ELSE ApplyPenalties(score - Penalty(problems[k]), k + 1)
        weighted == 5 * math_report.confidence + 3 * pedagogic_report.score
                        + 2 * coherence_report.score
        penalised == ApplyPenalties(weighted, 1)
        overall_score == IF penalised < 0 THEN 0
                         ELSE IF penalised > 1000 THEN 1000 ELSE penalised
        report_status == IF overall_score >= 900 THEN "passed"
                         ELSE IF overall_score >= 600 THEN "partial_success"
                         ELSE "failed"
    IN  [overall_score |-> overall_score, status |-> report_status, problems |-> problems]

\* calculate_overall_score: weighted sum of the sub-scores, one penalty per problem
\* (a critical problem also caps the running score at 20), clamp to 0..100, status
\* from the thresholds 90 and 60, and failed whenever a critical problem is present.
CalculateOverallScore(math_report, pedagogic_report, coherence_report) ==
    LET problems == math_report.problems \o pedagogic_report.problems
                        \o coherence_report.problems
        Penalty(sev) == CASE sev = "critical" -> 500
                          [] sev = "major" -> 200
                          [] sev = "minor" -> 50
                          [] OTHER -> 0
        RECURSIVE ApplyPenalties(_, _)
        ApplyPenalties(score, k) ==
            IF k > Len(problems) THEN score
            ELSE LET s1 == score - Penalty(problems[k])
                     s2 == IF problems[k] = "critical" /\ s1 > 200 THEN 200 ELSE s1
                 IN  ApplyPenalties(s2, k + 1)
        weighted == 5 * math_report.confidence + 3 * pedagogic_report.score
                        + 2 * coherence_report.score
        penalised == ApplyPenalties(weighted, 1)
        overall_score == IF penalised < 0 THEN 0
                         ELSE IF penalised > 1000 THEN 1000 ELSE penalised
        by_score == IF overall_score >= 900 THEN "passed"
                    ELSE IF overall_score >= 600 THEN "partial_success"
                    ELSE "failed"
        report_status == IF HasCritical(problems) THEN "failed" ELSE by_score
    IN  [overall_score |-> overall_score, status |-> report_status, problems |-> problems]

\* The QC service computes the report of the sub-reports it was given.
CalculateScore ==
    /\ scoreInputs # NoScoreInputs
    /\ scoreReport = NoReport
    /\ scoreReport' = CalculateOverallScore(scoreInputs.math, scoreInputs.pedagogic,
                                            scoreInputs.coherence)
    /\ UNCHANGED <<mode, qcFails, scoreInputs, fsm, planner, projectStatus, blocks, queue, wtasks,
                   lastResp, sigLog, calls>>

InitScore ==
    /\ InitWorkflow
    /\ mode = SUPERVISE
    /\ \A b \in DOMAIN blocks : blocks[b].status = "pending_generation"
    /\ scoreInputs \in ScoreInputs
    /\ scoreReport = NoReport
    /\ fsm = NoFsm
    /\ planner = NoPlanner

NextScore == CalculateScore

SpecScore == InitScore /\ [][NextScore]_vars

\* C20: every report produced by calculate_overall_score that contains a problem of
\* severity critical has status failed.
C20_CriticalReportFailed ==
    (scoreReport # NoReport /\ HasCritical(scoreReport.problems))
        => scoreReport.status = "failed"

\* A report was produced for sub-scores that are all at their maximum and a problem
\* list holding a critical problem.
C20_Witness ==
    /\ scoreReport # NoReport
    /\ HasCritical(scoreReport.problems)
    /\ scoreInputs.math.confidence = 100
    /\ scoreInputs.pedagogic.score = 100
    /\ scoreInputs.coherence.score = 100
    /\ scoreReport.status = "failed"

\* C21: a block has a QC report exactly when its status is qc_passed, qc_failed or
\* refinement_pending.
C21_ReportIffQcStatus ==
    \A b \in DOMAIN blocks :
        (blocks[b].qc # NoReport)
            <=> (blocks[b].status \in {"qc_passed", "qc_failed", "refinement_pending"})

----------------------------------------------------------------------------
(* ContentBlockStateMachine on its own *)

\* What callers pass to transition(): the event names, and the EVENTS[...] descriptions
\* the tasks and policies pass.
FsmEvents == DOMAIN EVENTS \cup { EVENTS[k] : k \in DOMAIN EVENTS }

\* __init__ with a valid initial state; no transition() call made yet.
NewFsm(initial_state, fsmMode) ==
    [ current_state |-> initial_state, mode |-> fsmMode, event |-> "none",
      raised |-> FALSE, from |-> initial_state ]

\* One call of transition(event): the state moves when the event is allowed and the
\* call raises InvalidWorkflowStateException otherwise.
FsmTransition(event) ==
    /\ fsm # NoFsm
    /\ LET tr == Transition(fsm.current_state, fsm.mode, event) IN
       fsm' = [ current_state |-> tr.state, mode |-> fsm.mode, event |-> event,
                raised |-> ~tr.ok, from |-> fsm.current_state ]
    /\ UNCHANGED <<mode, qcFails, scoreInputs, scoreReport, planner, projectStatus, blocks, queue,
                   wtasks, lastResp, sigLog, calls>>

InitFsm ==
    /\ InitWorkflow
    /\ mode = SUPERVISE
    /\ \A b \in DOMAIN blocks : blocks[b].status = "pending_generation"
    /\ scoreInputs = NoScoreInputs
    /\ scoreReport = NoReport
    /\ fsm \in { NewFsm(s, m) : s \in BLOCK_STATES, m \in {SUPERVISE, AUTONOME} }
    /\ planner = NoPlanner

NextFsm == \E event \in FsmEvents : FsmTransition(event)

SpecFsm == InitFsm /\ [][NextFsm]_vars

FsmCalled == fsm # NoFsm /\ fsm.event # "none"

\* C22: from validated, refinement_failed and critical_error the state machine
\* accepts ARCHIVE, which leads to archived, and no other event; from archived it
\* accepts no event; in both modes.
C22_TerminalStatesOnlyArchive ==
    FsmCalled =>
        /\ fsm.from \in {"validated", "refinement_failed", "critical_error"}
              => /\ fsm.raised <=> fsm.event # "ARCHIVE"
                 /\ ~fsm.raised => fsm.current_state = "archived"
        /\ fsm.from = "archived" => (fsm.raised /\ fsm.current_state = "archived")

\* A machine in validated rejected an event other than ARCHIVE in autonomous mode.
C22_Witness ==
    /\ FsmCalled
    /\ fsm.mode = AUTONOME
    /\ fsm.from = "validated"
    /\ fsm.event = "QC_PASSED"
    /\ fsm.raised

----------------------------------------------------------------------------
(* Concurrent writers of one block *)

\* The status a block-scoped task wrote when it started; the block still has it when
\* the task finishes unless another event committed on the block in between.
OwnStartStatus(m) ==
    IF m.task = "run_qc" THEN EVENTS["QC_STARTED"]
    ELSE IF m.isRef THEN EVENTS["REFINEMENT_STARTED"]
    ELSE EVENTS["GENERATE_STARTED"]

\* In this step task i commits its result after the collaborator answered.
TaskResultStep(i) ==
    /\ queue[i].task \in {"generate", "run_qc"}
    /\ queue[i].pc = "running"
    /\ queue'[i].pc # "running"

\* C23: a task result whose block was committed by another event since the task's
\* own last commit is refused (stale_update): it does not overwrite the block.
C23_StaleCommitRefused ==
    [][\A i \in DOMAIN queue :
          (TaskResultStep(i) /\ blocks[queue[i].block].status # OwnStartStatus(queue[i]))
              => blocks'[queue[i].block] = blocks[queue[i].block]]_vars

----------------------------------------------------------------------------
(* Retries *)

\* max_retries of the task's decorator.
RetryLimit(m) ==
    CASE m.task = "generate" -> MAX_REFINEMENT_ATTEMPTS
      [] m.task = "run_qc"   -> QC_MAX_RETRIES
      [] m.task = "assemble" -> ASSEMBLE_MAX_RETRIES
      [] m.task = "export"   -> EXPORT_MAX_RETRIES

\* C24: no task is re-executed more than 3 times (generate and refine: 5 times), and a
\* task that has ended is never run again.
C24_RetriesBounded ==
    /\ [](\A i \in DOMAIN queue :
            /\ queue[i].retries <= RetryLimit(queue[i])
            /\ RetryLimit(queue[i]) = IF queue[i].task = "generate" THEN 5 ELSE 3)
    /\ [][\A i \in DOMAIN queue : Finished(queue[i]) => queue'[i] = queue[i]]_vars

\* A QC task was retried 3 times and then failed for good.
C24_Witness ==
    \E i \in DOMAIN queue :
        /\ queue[i].task = "run_qc"
        /\ queue[i].retries = 3
        /\ queue[i].pc = "failure"
        /\ blocks[queue[i].block].err \in {"network", "service"}

----------------------------------------------------------------------------
(* Transient and deterministic failures *)

TransientAnswers == {"network", "rate_limit", "http5xx"}

\* The step in which task i gets the answer of its collaborator and runs to its end.
Answered(i) ==
    /\ queue[i].pc \in {"queued", "running"}
    /\ queue'[i] # queue[i]
    /\ queue'[i].pc # "running"

\* The step re-queues task i for one more execution.
Retried(i) ==
    /\ queue'[i].pc = "queued"
    /\ queue'[i].retries = queue[i].retries + 1

\* C25: a task whose call failed is retried exactly when the failure is transient
\* (network error, rate limit, 5xx) and its retries are not used up; a deterministic
\* failure ends the task without retry.  Generate, QC, assemble and export alike.
C25_RetryIffTransient ==
    [][\A i \in DOMAIN queue :
          (Answered(i) /\ queue'[i].answer # "ok")
              => (Retried(i) <=> /\ queue'[i].answer \in TransientAnswers
                                 /\ queue[i].retries < RetryLimit(queue[i]))]_vars

\* C26: a generate or refine task that fails deterministically ends failed without
\* retry, and its block is left in generation_failed (generation) or refinement_failed
\* (refinement).
C26_DeterministicFailureState ==
    [][\A i \in DOMAIN queue :
          (/\ Answered(i)
           /\ queue[i].task = "generate"
           /\ queue'[i].answer = "http4xx")
              => /\ queue'[i].pc = "failure"
                 /\ queue'[i].retries = queue[i].retries
                 /\ blocks'[queue[i].block].status =
                        IF queue[i].isRef THEN "refinement_failed"
                        ELSE "generation_failed"]_vars

----------------------------------------------------------------------------
(* Assembly and export *)

\* The step appends a message of the given task to the queue.
Enqueued(task) ==
    /\ Len(queue') = Len(queue) + 1
    /\ queue'[Len(queue')].task = task

\* C27: assembly is triggered only when every block is validated, archived or
\* refinement_failed and none is refinement_failed; when all are in that set and one
\* is refinement_failed the project is needs_manual_review instead; a project is
\* needs_manual_review only with a block in a terminal failure state.
C27_AssemblyOnlyWhenAllValidated ==
    /\ [][Enqueued("assemble")
            => \A b \in DOMAIN blocks' : blocks'[b].status \in {"validated", "archived"}]_vars
    /\ []((/\ \A b \in DOMAIN blocks : blocks[b].status \in
                                           {"validated", "archived", "refinement_failed"}
           /\ \E b \in DOMAIN blocks : blocks[b].status = "refinement_failed")
              => projectStatus = "needs_manual_review")
    /\ [](projectStatus = "needs_manual_review"
              => \E b \in DOMAIN blocks :
                    blocks[b].status \in {"generation_failed", "refinement_failed",
                                          "critical_error"})

----------------------------------------------------------------------------
(* Plan order *)

\* The blocks other than b still awaiting their generation, and the first in plan order.
PendingOthers(b) ==
    {n \in DOMAIN blocks : n # b /\ blocks[n].status = "pending_generation"}

NextInPlan(b) == CHOOSE n \in PendingOthers(b) : \A k \in PendingOthers(b) : n <= k

\* C28: in autonomous mode, when the QC result that validates a block (or exhausts its
\* refinement) is processed while other blocks are pending_generation, a generate task
\* is enqueued for the next of them in plan order.
C28_NextBlockScheduled ==
    [][\A i \in DOMAIN queue :
          (/\ QcResultProcessed(i)
           /\ \/ QcPassed(queue[i].report)
              \/ /\ QcFailed(queue[i].report)
                 /\ blocks[queue[i].block].attempts >= MAX_REFINEMENT_ATTEMPTS
           /\ PendingOthers(queue[i].block) # {})
              => \E j \in DOMAIN queue' \ DOMAIN queue :
                    /\ queue'[j].task = "generate"
                    /\ ~queue'[j].isRef
                    /\ queue'[j].block = NextInPlan(queue[i].block)]_vars

\* C29: in autonomous mode assemble_document is enqueued only once every block is
\* processed, and export_document only by the step in which an assemble_document task
\* succeeds, never by a failed assembly.
C29_AssembleThenExport ==
    /\ [][(mode = AUTONOME /\ Enqueued("assemble"))
            => \A b \in DOMAIN blocks' : blocks'[b].status \in ProcessedStatuses]_vars
    /\ [][(mode = AUTONOME /\ Enqueued("export"))
            => \E i \in DOMAIN queue :
                  /\ queue[i].task = "assemble"
                  /\ queue[i].pc = "queued"
                  /\ queue'[i].pc = "success"]_vars

----------------------------------------------------------------------------
(* A worker lost between the commit of a block and the dispatch of the follow-up task *)

\* generate_content_block_task whose worker is lost after the write of the generated
\* content and before run_qc_task.delay.  With task_acks_late the message is either
\* redelivered (the broker never got the acknowledgement) or acknowledged as failed
\* (the pool process was lost and task_reject_on_worker_lost is not set).
GenerateLost(i, redelivered) ==
    /\ queue[i].task = "generate" /\ queue[i].pc = "running"
    /\ LET m == queue[i]
           st == IF ~m.isRef THEN EVENTS["GENERATE_SUCCESS"] ELSE EVENTS["REFINEMENT_SUCCESS"]
           w1 == UpdateBlock(World, m.block,
                     [content |-> IF m.isRef THEN "refined" ELSE "generated", status |-> st])
       IN  Commit([w1 EXCEPT !.queue[i].pc = IF redelivered THEN "queued" ELSE "failure",
                             !.queue[i].answer = "ok"])
    /\ UNCHANGED <<mode, qcFails, scoreInputs, scoreReport, fsm, planner, wtasks, lastResp, sigLog, calls>>

\* One step of a Celery worker.
WorkerStep ==
    \E i \in DOMAIN queue :
        \/ GenerateStart(i)
        \/ \E o \in GenOutcomes : GenerateFinish(i, o)
        \/ QcStart(i)
        \/ \E o \in HttpOutcomes, r \in Reports : QcFinish(i, o, r)
        \/ QcProcess(i)

NextDispatch ==
    \/ \E b \in DOMAIN blocks : SubmitGenerate(b)
    \/ \E i \in DOMAIN queue, redelivered \in BOOLEAN : GenerateLost(i, redelivered)
    \/ WorkerStep

\* The workers keep consuming the broker: a task that can take a step takes one.
SpecDispatch == Init /\ [][NextDispatch]_vars /\ WF_vars(WorkerStep)

\* Block b holds generated content awaiting QC, and no task that would submit its QC
\* or run it is pending or in progress.
DispatchMissing(b) ==
    /\ b \in DOMAIN blocks
    /\ blocks[b].status \in {EVENTS["GENERATE_SUCCESS"], EVENTS["REFINEMENT_SUCCESS"]}
    /\ \A i \in DOMAIN queue : queue[i].block = b => Finished(queue[i])

\* C30: a block whose state was committed while the follow-up task was never submitted
\* does not stay so forever: the missing task is eventually submitted.
C30_MissingTaskEventuallySubmitted ==
    \A b \in 1..NumBlocks : DispatchMissing(b) ~> ~DispatchMissing(b)

----------------------------------------------------------------------------
(* AutonomousPlanner *)

MaxPlanBlocks == 2
MaxChapters == 2

SeqsUpTo(S, n) == UNION { [1..k -> S] : k \in 0..n }

\* The block_id of every block reference of a content_structure, in pre-order.
RECURSIVE Flatten(_)
Flatten(ss) == IF ss = << >> THEN << >> ELSE Head(ss) \o Flatten(Tail(ss))

BlockRefs(structure) == Flatten([c \in DOMAIN structure |-> Flatten(structure[c])])

\* content_structure: chapters, each a list of sections, each a list of block
\* references; no block is referenced twice.
PlanSections == SeqsUpTo(1..MaxPlanBlocks, MaxPlanBlocks)
PlanChapters == SeqsUpTo(PlanSections, 1)
Structures ==
    { st \in SeqsUpTo(PlanChapters, MaxChapters) :
        \A i, j \in DOMAIN BlockRefs(st) :
            i # j => BlockRefs(st)[i] # BlockRefs(st)[j] }

\* The status of a block of all_content_blocks; "missing" when it has no row.
PlanStatuses ==
    {"pending_generation", "validated", "generation_failed", "critical_error", "missing"}

\* generate_initial_plan: a checkpoint per chapter, a generate_block step per block
\* reference, and a final_assembly step.
PlanStep(type, b) == [type |-> type, block |-> b]

GenerateInitialPlan(structure) ==
    Flatten([c \in DOMAIN structure |->
                <<PlanStep("checkpoint", 0)>> \o
                [k \in DOMAIN Flatten(structure[c]) |->
                    PlanStep("generate_block", Flatten(structure[c])[k])]])
    \o <<PlanStep("final_assembly", 0)>>

PlannerSkipped == {"validated", "generation_failed", "refinement_failed", "archived"}

\* get_next_task_in_plan: None past the end of the plan; a generate_block step whose
\* block is already treated is skipped; any other step is returned.  The index is
\* 0-based as in the source.
RECURSIVE GetNextTaskInPlan(_, _, _)
GetNextTaskInPlan(plan, current_plan_index, statuses) ==
    IF current_plan_index >= Len(plan) THEN PlanStep("None", 0)
    ELSE LET next_step == plan[current_plan_index + 1] IN
         IF /\ next_step.type = "generate_block"
            /\ statuses[next_step.block] \in PlannerSkipped
         THEN GetNextTaskInPlan(plan, current_plan_index + 1, statuses)
         ELSE next_step

NextTask ==
    /\ planner # NoPlanner
    /\ planner.result = PlanStep("uncalled", 0)
    /\ planner' = [planner EXCEPT !.result =
                      GetNextTaskInPlan(GenerateInitialPlan(planner.structure),
                                        planner.index, planner.statuses)]
    /\ UNCHANGED <<mode, qcFails, scoreInputs, scoreReport, fsm, projectStatus, blocks, queue,
                   wtasks, lastResp, sigLog, calls>>

InitPlanner ==
    /\ InitWorkflow
    /\ mode = AUTONOME
    /\ \A b \in DOMAIN blocks : blocks[b].status = "pending_generation"
    /\ scoreInputs = NoScoreInputs
    /\ scoreReport = NoReport
    /\ fsm = NoFsm
    /\ \E st \in Structures, ss \in [1..MaxPlanBlocks -> PlanStatuses] :
          \E idx \in 0..Len(GenerateInitialPlan(st)) :
             planner = [structure |-> st, statuses |-> ss, index |-> idx,
                        result |-> PlanStep("uncalled", 0)]

NextPlanner == NextTask

SpecPlanner == InitPlanner /\ [][NextPlanner]_vars

\* The block states that are terminal for the planner's walk.
TerminalStatuses == {"validated", "refinement_failed", "critical_error", "archived"}

\* The positions of the plan, from the index asked, that hold a block which is not
\* in a terminal state.
OpenSteps ==
    LET plan == GenerateInitialPlan(planner.structure) IN
    { k \in (planner.index + 1)..Len(plan) :
        /\ plan[k].type = "generate_block"
        /\ planner.statuses[plan[k].block] \notin TerminalStatuses }

\* C31: the planner returns the first block in pre-order that is not in a terminal
\* state (a slot is skipped iff its block is terminal), and reports completion when
\* every slot is terminal.
C31_PlannerFirstNonTerminal ==
    (planner # NoPlanner /\ planner.result.type # "uncalled") =>
        LET plan == GenerateInitialPlan(planner.structure) IN
        IF OpenSteps = {}
        THEN planner.result.type \in {"None", "final_assembly"}
        ELSE planner.result =
                plan[CHOOSE k \in OpenSteps : \A j \in OpenSteps : k <= j]

----------------------------------------------------------------------------
(* ALL_APPROVED *)

\* In this step the signal endpoint answered ALL_APPROVED on a supervised project.
AllApprovedHandled == SignalHandled("ALL_APPROVED", 0)

C33_OneAssemblyAtATime ==
    Cardinality({ i \in DOMAIN queue :
                    queue[i].task = "assemble" /\ ~Finished(queue[i]) }) <= 1

----------------------------------------------------------------------------
(* The events the policies hand to the state machine *)

\* The keys of EVENTS that supervisor_logic and autonomous_logic look up for
\* fsm.transition.
PolicyEvents == {"USER_VALIDATE", "USER_REDO", "QC_PASSED", "QC_FAILED", "REFINEMENT_FAILED"}

\* C34: the value EVENTS[k] a policy passes to transition() is recognised by the
\* transition table: wherever the table allows event k, the call made with EVENTS[k]
\* does not raise and reaches the table's target state.
C34_PolicyEventsRecognised ==
    FsmCalled =>
        \A k \in PolicyEvents :
            (/\ fsm.event = EVENTS[k]
             /\ GetAllowedTransitions(fsm.from, fsm.mode, k) # << >>)
                => /\ ~fsm.raised
                   /\ fsm.current_state = GetAllowedTransitions(fsm.from, fsm.mode, k)[1]

----------------------------------------------------------------------------
(* Two state machines fed the same events *)

\* transition(event) on machine m: the machine after the call.
FsmCall(m, event) ==
    LET tr == Transition(m.current_state, m.mode, event) IN
    [ current_state |-> tr.state, mode |-> m.mode, event |-> event,
      raised |-> ~tr.ok, from |-> m.current_state ]

\* The same event is handed to both machines of the pair.
FsmPairTransition(event) ==
    /\ fsm # NoFsm
    /\ fsm' = [first |-> FsmCall(fsm.first, event), second |-> FsmCall(fsm.second, event)]
    /\ UNCHANGED <<mode, qcFails, scoreInputs, scoreReport, planner, projectStatus, blocks, queue,
                   wtasks, lastResp, sigLog, calls>>

InitFsmPair ==
    /\ InitWorkflow
    /\ mode = SUPERVISE
    /\ \A b \in DOMAIN blocks : blocks[b].status = "pending_generation"
    /\ scoreInputs = NoScoreInputs
    /\ scoreReport = NoReport
    /\ planner = NoPlanner
    /\ \E s \in BLOCK_STATES, m \in {SUPERVISE, AUTONOME} :
          fsm = [first |-> NewFsm(s, m), second |-> NewFsm(s, m)]

NextFsmPair == \E event \in FsmEvents : FsmPairTransition(event)

SpecFsmPair == InitFsmPair /\ [][NextFsmPair]_vars

Accepted(s, m) == { e \in FsmEvents : Transition(s, m, e).ok }

\* C37: a call of transition() that raises leaves current_state (and the mode) as
\* they were, and the machine accepts afterwards every event it accepted before.
C37_RejectionChangesNothing ==
    /\ []((FsmCalled /\ fsm.raised) =>
            /\ fsm.current_state = fsm.from
            /\ Accepted(fsm.from, fsm.mode) \subseteq Accepted(fsm.current_state, fsm.mode))
    /\ [][(fsm # NoFsm /\ fsm'.raised)
             => (fsm'.current_state = fsm.current_state /\ fsm'.mode = fsm.mode)]_vars

\* A supervised machine in pending_validation refused QC_PASSED and still accepts
\* USER_VALIDATE.
C37_Witness ==
    /\ FsmCalled
    /\ fsm.raised
    /\ fsm.mode = SUPERVISE
    /\ fsm.from = "pending_validation"
    /\ fsm.event = "QC_PASSED"
    /\ "USER_VALIDATE" \in Accepted(fsm.current_state, fsm.mode)

----------------------------------------------------------------------------
(* Calls in the wrong mode and malformed signals *)

\* Every signal a caller can send: any type, with or without a block, with or without
\* feedback.
AnySignals ==
    [ sig : {"VALIDATED", "REDO", "ALL_APPROVED", "CANCEL_PROJECT"},
      block : {0} \cup DOMAIN blocks,
      fb : BOOLEAN ]

\* A VALIDATED signal without a block, or a REDO signal without a block or feedback.
Malformed(signal) ==
    \/ signal.sig = "VALIDATED" /\ signal.block = 0
    \/ signal.sig = "REDO" /\ (signal.block = 0 \/ ~signal.fb)

\* The call ended with an error and wrote and enqueued nothing.
Refused(r) == r.exc # "none" /\ r.w = World

\* C38: handle_user_signal on a project that is not supervised and
\* process_generated_block_result on a project that is not autonomous fail before any
\* write or enqueue; so do VALIDATED without a block and REDO without a block or
\* without feedback on a supervised project.
C38_WrongModeChangesNothing ==
    /\ mode # SUPERVISE =>
          \A signal \in AnySignals : Refused(HandleUserSignal(World, signal))
    /\ mode # AUTONOME =>
          \A b \in DOMAIN blocks, r \in Reports :
              Refused(ProcessGeneratedBlockResult(World, b, r))
    /\ mode = SUPERVISE =>
          \A signal \in AnySignals :
              Malformed(signal) => Refused(HandleUserSignal(World, signal))
    /\ (lastResp.op = "signal" /\ mode = SUPERVISE /\ Malformed(lastResp.signal))
          => (lastResp.kind # "ok" /\ ~lastResp.changed)

\* A supervised project answered a REDO without feedback on a block awaiting
\* generation with a bad-request error and changed nothing.
C38_Witness ==
    /\ mode = SUPERVISE
    /\ lastResp.op = "signal"
    /\ lastResp.signal = [sig |-> "REDO", block |-> 1, fb |-> FALSE]
    /\ lastResp.pre = "pending_generation"
    /\ lastResp.kind = "bad_request"
    /\ ~lastResp.changed

====
